---- MODULE Spec2Model ----
(***************************************************************************)
(* Mancala (Kalah variant), src/Mancala.py.                                *)
(*                                                                         *)
(* The board is a list of 14 counts: 0..5 Player 1's pits, 6 Player 1's    *)
(* store, 7..12 Player 2's pits, 13 Player 2's store.                      *)
(*                                                                         *)
(* Two specifications over the same variables:                             *)
(*   Spec      a caller that builds a board with init_board() and then     *)
(*             calls make_move / collect_remaining_stones / get_winner     *)
(*             with any arguments, in any order;                           *)
(*   SpecMain  the driver main(), reading pit selections from input().     *)
(***************************************************************************)
EXTENDS Integers, Sequences, FiniteSets, TLC

VARIABLES
    board,        \* the board list (mutated in place by the engine)
    prev,         \* the board as it was when the last call began
    sown,         \* make_move: the board after the sowing loop (line 82)
    op,           \* the last engine call: "init_board", "make_move", ...
    pit,          \* make_move: the pit argument of the last call
    who,          \* make_move: the player argument of the last call
    valid_move,   \* make_move: first component of the returned tuple
    extra_turn,   \* make_move: third component of the returned tuple
    index,        \* make_move: the local `index` when the call returned
    winner,       \* the value returned by the last get_winner
    player,       \* main: the player to move
    pc,           \* main: position in the driver
    script,       \* the scripted opening the call sequence begins with
    pos,          \* number of scripted calls made so far
    calls         \* number of calls made off the script

vars == <<board, prev, sown, op, pit, who, valid_move, extra_turn, index,
          winner, player, pc, script, pos, calls>>

(***************************************************************************)
(* Bounds of the model.                                                    *)
(***************************************************************************)
\* Spec: calls made with arbitrary arguments after (or instead of the rest
\* of) the scripted opening.
MaxCalls == 2
\* SpecMain: accepted moves chosen freely after leaving the scripted opening.
MaxMoves == 1
\* SpecMain: a game with at most this many stones left in the 12 pits is
\* played on freely to its end, whatever the number of moves.
MaxEndStones == 5

Players == {1, 2}

\* Pit arguments tried: every board index, one below and one above.
PitArgs == -1 .. 14

(***************************************************************************)
(* Scripted openings.  Each is a legal game from init_board(), written as  *)
(* the <<pit, player>> arguments of its successive make_move calls; main() *)
(* reads the pits alone from input().                                      *)
(***************************************************************************)
\* ends with Player 2's pits all empty
ScriptOver ==
    << <<5, 1>>, <<8, 2>>, <<9, 2>>, <<0, 1>>, <<10, 2>>, <<0, 1>>,
       <<11, 2>>, <<0, 1>>, <<12, 2>> >>
\* ends with 13 stones in pit 2, Player 1 to move
ScriptLap1 ==
    << <<1, 1>>, <<12, 2>>, <<0, 1>>, <<9, 2>>, <<8, 2>>, <<1, 1>>,
       <<11, 2>>, <<1, 1>>, <<10, 2>>, <<1, 1>>, <<12, 2>> >>
\* ends with 13 stones in pit 8, Player 2 to move
ScriptLap2 ==
    << <<5, 1>>, <<7, 2>>, <<0, 1>>, <<12, 2>>, <<2, 1>>, <<7, 2>>,
       <<3, 1>>, <<7, 2>>, <<4, 1>>, <<7, 2>>, <<5, 1>> >>
\* ends with 14 stones in pit 4, Player 1 to move
ScriptBig1 ==
    << <<1, 1>>, <<8, 2>>, <<3, 1>>, <<8, 2>>, <<2, 1>>, <<9, 2>>,
       <<3, 1>>, <<10, 2>>, <<0, 1>>, <<1, 1>>, <<11, 2>>, <<2, 1>>,
       <<3, 1>>, <<12, 2>> >>
\* ends with 14 stones in pit 8, Player 2 to move
ScriptBig2 ==
    << <<0, 1>>, <<7, 2>>, <<5, 1>>, <<7, 2>>, <<1, 1>>, <<3, 1>>,
       <<7, 2>>, <<4, 1>>, <<7, 2>>, <<5, 1>>, <<7, 2>>, <<2, 1>> >>
\* ends with Player 1's pits all empty and 24 stones on each side
ScriptTie ==
    << <<4, 1>>, <<8, 2>>, <<9, 2>>, <<0, 1>>, <<10, 2>>, <<1, 1>>,
       <<7, 2>>, <<10, 2>>, <<3, 1>>, <<8, 2>>, <<0, 1>>, <<7, 2>>,
       <<5, 1>> >>
\* ends with pit 0 = 1, pit 1 = 0, pit 11 = 5, Player 1 to move
ScriptCapture ==
    << <<0, 1>>, <<10, 2>>, <<1, 1>> >>
\* ends with Player 1's pits all empty, on a move that earned an extra turn
ScriptExtraEnd ==
    << <<0, 1>>, <<8, 2>>, <<2, 1>>, <<7, 2>>, <<1, 1>>, <<5, 1>>,
       <<7, 2>>, <<3, 1>>, <<8, 2>>, <<2, 1>>, <<7, 2>>, <<5, 1>> >>
\* ends with 5 stones in the pits and 35 in store 6, Player 2 to move
ScriptEnd5 ==
    << <<2, 1>>, <<3, 1>>, <<10, 2>>, <<4, 1>>, <<11, 2>>, <<2, 1>>,
       <<10, 2>>, <<0, 1>>, <<5, 1>>, <<9, 2>>, <<4, 1>>, <<11, 2>>,
       <<3, 1>> >>
\* ends with 6 stones in the pits and 25 in store 13, Player 1 to move
ScriptEnd6 ==
    << <<5, 1>>, <<9, 2>>, <<1, 1>>, <<10, 2>>, <<4, 1>>, <<12, 2>>,
       <<4, 1>>, <<11, 2>>, <<1, 1>>, <<12, 2>>, <<9, 2>>, <<5, 1>>,
       <<7, 2>>, <<0, 1>>, <<8, 2>> >>

Scripts ==
    << ScriptOver, ScriptLap1, ScriptLap2, ScriptBig1, ScriptBig2,
       ScriptTie, ScriptCapture, ScriptExtraEnd, ScriptEnd5, ScriptEnd6 >>

(***************************************************************************)
(* The engine.                                                             *)
(***************************************************************************)
\* sum(board[lo:hi+1])
RECURSIVE SumRange(_, _, _)
SumRange(b, lo, hi) ==
    IF lo > hi THEN 0 ELSE b[lo] + SumRange(b, lo + 1, hi)

init_board ==
    [i \in 0 .. 13 |-> IF i = 6 \/ i = 13 THEN 0 ELSE 4]

\* An end-of-game test that waits for both sides to be empty.
is_game_over_BothEmpty(b) ==
    SumRange(b, 0, 5) = 0 /\ SumRange(b, 7, 12) = 0

is_game_over(b) ==
    SumRange(b, 0, 5) = 0 \/ SumRange(b, 7, 12) = 0

\* A validation that forgets the empty-pit test.
InvalidMove_RangeOnly(b, pt, p) ==
    IF p = 1
    THEN pt < 0 \/ pt > 5
    ELSE pt < 7 \/ pt > 12

\* A validation whose ranges run one index too far, onto the player's store.
InvalidMove_IncludesStore(b, pt, p) ==
    IF p = 1
    THEN pt < 0 \/ pt > 6 \/ b[pt] = 0
    ELSE pt < 7 \/ pt > 13 \/ b[pt] = 0

\* make_move, lines 63-68: the condition under which the call returns
\* (False, board, False).  Any player other than 1 takes the else branch.
InvalidMove(b, pt, p) ==
    IF p = 1
    THEN pt < 0 \/ pt > 5 \/ b[pt] = 0
    ELSE pt < 7 \/ pt > 12 \/ b[pt] = 0

\* A loop that skips only for Player 2.
Skips_Player2Only(p, i) ==
    p = 2 /\ i = 6

\* make_move, lines 77-80: the positions the loop passes without a stone.
Skips(p, i) ==
    (p = 1 /\ i = 13) \/ (p = 2 /\ i = 6)

\* make_move, lines 74-82: the while loop, from the values of board, index
\* and stones at its head to board and index at its exit.
RECURSIVE Sow(_, _, _, _)
Sow(b, idx, stones, p) ==
    IF ~(stones > 0)
    THEN [board |-> b, index |-> idx]
    ELSE LET i == (idx + 1) % 14
         IN  IF Skips(p, i)
             THEN Sow(b, i, stones, p)
             ELSE Sow([b EXCEPT ![i] = @ + 1], i, stones - 1, p)

\* A move that forgets to empty the chosen pit.
Sowing_KeepsPit(b, pt, p) ==
    Sow(b, pt, b[pt], p)

\* make_move, lines 70-82: board and index after the loop of a valid move.
Sowing(b, pt, p) ==
    Sow([b EXCEPT ![pt] = 0], pt, b[pt], p)

\* An extra turn granted to Player 2 only.
ExtraTurn_Player2Only(p, idx) ==
    p = 2 /\ idx = 13

\* make_move, lines 84-87
ExtraTurn(p, idx) ==
    (p = 1 /\ idx = 6) \/ (p = 2 /\ idx = 13)

\* An opposite pit that is off by one.
Opposite_OffByOne(idx) ==
    13 - idx

\* An opposite pit found seven positions further round the board.
Opposite_PlusSeven(idx) ==
    (idx + 7) % 14

\* make_move, lines 91 and 97
Opposite(idx) ==
    12 - idx

\* A capture that leaves the landing stone out of the store.
Capture_DropsLandingStone(b, idx, p) ==
    IF p = 1 /\ idx \in 0 .. 5 /\ b[idx] = 1
    THEN IF b[12 - idx] > 0
         THEN [b EXCEPT ![6] = @ + b[12 - idx],
                        ![idx] = 0,
                        ![12 - idx] = 0]
         ELSE b
    ELSE IF p = 2 /\ idx \in 7 .. 12 /\ b[idx] = 1
    THEN IF b[12 - idx] > 0
         THEN [b EXCEPT ![13] = @ + b[12 - idx],
                        ![idx] = 0,
                        ![12 - idx] = 0]
         ELSE b
    ELSE b

\* A capture that does not test for exactly one stone in the landing pit.
Capture_AnyCount(b, idx, p) ==
    IF p = 1 /\ idx \in 0 .. 5
    THEN IF b[12 - idx] > 0
         THEN [b EXCEPT ![6] = @ + b[12 - idx] + 1,
                        ![idx] = 0,
                        ![12 - idx] = 0]
         ELSE b
    ELSE IF p = 2 /\ idx \in 7 .. 12
    THEN IF b[12 - idx] > 0
         THEN [b EXCEPT ![13] = @ + b[12 - idx] + 1,
                        ![idx] = 0,
                        ![12 - idx] = 0]
         ELSE b
    ELSE b

\* A capture that takes the landing stone out of the opposite pit.
Capture_ChargesOpposite(b, idx, p) ==
    IF p = 1 /\ idx \in 0 .. 5 /\ b[idx] = 1
    THEN IF b[12 - idx] > 0
         THEN [b EXCEPT ![6] = @ + b[12 - idx] + 1,
                        ![12 - idx] = 0 - 1]
         ELSE b
    ELSE IF p = 2 /\ idx \in 7 .. 12 /\ b[idx] = 1
    THEN IF b[12 - idx] > 0
         THEN [b EXCEPT ![13] = @ + b[12 - idx] + 1,
                        ![12 - idx] = 0 - 1]
         ELSE b
    ELSE b

\* make_move, lines 89-101: the capture rule applied to the sown board.
Capture(b, idx, p) ==
    IF p = 1 /\ idx \in 0 .. 5 /\ b[idx] = 1
    THEN IF b[Opposite(idx)] > 0
         THEN [b EXCEPT ![6] = @ + b[Opposite(idx)] + 1,
                        ![idx] = 0,
                        ![Opposite(idx)] = 0]
         ELSE b
    ELSE IF p = 2 /\ idx \in 7 .. 12 /\ b[idx] = 1
    THEN IF b[Opposite(idx)] > 0
         THEN [b EXCEPT ![13] = @ + b[Opposite(idx)] + 1,
                        ![idx] = 0,
                        ![Opposite(idx)] = 0]
         ELSE b
    ELSE b

\* The returned tuple (valid_move, board, extra_turn).
make_move(b, pt, p) ==
    IF InvalidMove(b, pt, p)
    THEN [valid |-> FALSE, board |-> b, extra |-> FALSE]
    ELSE LET s == Sowing(b, pt, p)
         IN  [valid |-> TRUE,
              board |-> Capture(s.board, s.index, p),
              extra |-> ExtraTurn(p, s.index)]

\* A sweep whose second slice stops one pit short (board[7:12]).
collect_remaining_stones_ShortSlice(b) ==
    [i \in 0 .. 13 |->
        IF i = 6 THEN b[6] + SumRange(b, 0, 5)
        ELSE IF i = 13 THEN b[13] + SumRange(b, 7, 11)
        ELSE 0]

\* A sweep that forgets to zero Player 2's pits.
collect_remaining_stones_LeavesPlayer2(b) ==
    [i \in 0 .. 13 |->
        IF i = 6 THEN b[6] + SumRange(b, 0, 5)
        ELSE IF i = 13 THEN b[13] + SumRange(b, 7, 12)
        ELSE IF i \in 7 .. 12 THEN b[i]
        ELSE 0]

collect_remaining_stones(b) ==
    [i \in 0 .. 13 |->
        IF i = 6 THEN b[6] + SumRange(b, 0, 5)
        ELSE IF i = 13 THEN b[13] + SumRange(b, 7, 12)
        ELSE 0]

\* A comparison that gives ties to Player 1.
get_winner_NoTie(b) ==
    IF b[6] >= b[13] THEN 1
    ELSE IF b[13] > b[6] THEN 2
    ELSE 0

get_winner(b) ==
    IF b[6] > b[13] THEN 1
    ELSE IF b[13] > b[6] THEN 2
    ELSE 0

(***************************************************************************)
(* Effects of one engine call on the recorded state.                       *)
(***************************************************************************)
DoMakeMove(pt, p) ==
    LET r == make_move(board, pt, p)
    IN  /\ op' = "make_move"
        /\ pit' = pt
        /\ who' = p
        /\ prev' = board
        /\ board' = r.board
        /\ valid_move' = r.valid
        /\ extra_turn' = r.extra
        \* the locals of lines 70-82 exist only past the validation
        /\ IF r.valid
           THEN /\ sown' = Sowing(board, pt, p).board
                /\ index' = Sowing(board, pt, p).index
           ELSE UNCHANGED <<sown, index>>

DoCollect ==
    /\ op' = "collect_remaining_stones"
    /\ prev' = board
    /\ board' = collect_remaining_stones(board)

DoGetWinner ==
    /\ op' = "get_winner"
    /\ prev' = board
    /\ winner' = get_winner(board)
    /\ UNCHANGED board

(***************************************************************************)
(* Spec: a caller of the engine.                                           *)
(***************************************************************************)
Init ==
    /\ board = init_board
    /\ prev = init_board
    /\ sown = init_board
    /\ op = "init_board"
    /\ pit = 0
    /\ who = 1
    /\ valid_move = FALSE
    /\ extra_turn = FALSE
    /\ index = 0
    /\ winner = 0
    /\ player = 1
    /\ pc = "while"
    /\ script \in 1 .. Len(Scripts)
    /\ pos = 0
    /\ calls = 0

\* the next call of the scripted opening
ScriptedCall ==
    /\ calls = 0
    /\ pos < Len(Scripts[script])
    /\ DoMakeMove(Scripts[script][pos + 1][1], Scripts[script][pos + 1][2])
    /\ pos' = pos + 1
    /\ UNCHANGED <<winner, player, pc, script, calls>>

CallMakeMove ==
    /\ calls < MaxCalls
    /\ \E pt \in PitArgs, p \in Players : DoMakeMove(pt, p)
    /\ calls' = calls + 1
    /\ UNCHANGED <<winner, player, pc, script, pos>>

CallCollect ==
    /\ calls < MaxCalls
    /\ DoCollect
    /\ calls' = calls + 1
    /\ UNCHANGED <<sown, pit, who, valid_move, extra_turn, index, winner,
                   player, pc, script, pos>>

CallGetWinner ==
    /\ calls < MaxCalls
    /\ DoGetWinner
    /\ calls' = calls + 1
    /\ UNCHANGED <<sown, pit, who, valid_move, extra_turn, index,
                   player, pc, script, pos>>

Next ==
    \/ ScriptedCall
    \/ CallMakeMove
    \/ CallCollect
    \/ CallGetWinner

Spec == Init /\ [][Next]_vars

(***************************************************************************)
(* SpecMain: the driver main().  It starts in the same state: the board of *)
(* init_board(), player = 1, about to test the outer while condition.      *)
(***************************************************************************)
\* main, lines 136-141: a pit the driver refuses without calling make_move
DriverRejects(p, pt) ==
    \/ p = 1 /\ (pt < 0 \/ pt > 5)
    \/ p = 2 /\ (pt < 7 \/ pt > 12)

\* A driver that switches players after every accepted move.
NextPlayer_AlwaysSwitch(p, extra) ==
    IF p = 1 THEN 2 ELSE 1

\* main, lines 148-152: the player to move after an accepted move
NextPlayer(p, extra) ==
    IF extra THEN p ELSE IF p = 1 THEN 2 ELSE 1

\* A driver that does not test for the end of the game before an extra turn.
MainWhile_ExtraTurnUnchecked ==
    /\ pc = "while"
    /\ IF ~is_game_over(board) \/ (op = "make_move" /\ extra_turn)
       THEN /\ pc' = "input"
            /\ valid_move' = FALSE
       ELSE /\ pc' = "collect"
            /\ UNCHANGED valid_move
    /\ UNCHANGED <<board, prev, sown, op, pit, who, extra_turn, index,
                   winner, player, script, pos, calls>>

\* main, line 128 (and line 131 when the loop body is entered)
MainWhile ==
    /\ pc = "while"
    /\ IF ~is_game_over(board)
       THEN /\ pc' = "input"
            /\ valid_move' = FALSE
       ELSE /\ pc' = "collect"
            /\ UNCHANGED valid_move
    /\ UNCHANGED <<board, prev, sown, op, pit, who, extra_turn, index,
                   winner, player, script, pos, calls>>

\* main, lines 134-152 for an input that int() parses to pt
DoInput(pt) ==
    IF DriverRejects(player, pt)
    THEN /\ op' = "rejected"
         /\ pit' = pt
         /\ who' = player
         /\ prev' = board
         /\ UNCHANGED <<board, sown, valid_move, extra_turn, index,
                        player, pc>>
    ELSE /\ DoMakeMove(pt, player)
         /\ IF make_move(board, pt, player).valid
            THEN /\ player' = NextPlayer(player,
                                         make_move(board, pt, player).extra)
                 /\ pc' = "while"
            ELSE UNCHANGED <<player, pc>>

\* the stones still in the 12 pits
PitStones(b) ==
    SumRange(b, 0, 5) + SumRange(b, 7, 12)

\* an input that make_move will accept
Accepted(pt) ==
    ~DriverRejects(player, pt) /\ make_move(board, pt, player).valid

\* the next input of the scripted opening
ScriptedInput ==
    /\ pc = "input"
    /\ calls = 0
    /\ pos < Len(Scripts[script])
    /\ DoInput(Scripts[script][pos + 1][1])
    /\ pos' = pos + 1
    /\ UNCHANGED <<winner, script, calls>>

\* any other integer input
FreeInput ==
    /\ pc = "input"
    /\ \E pt \in PitArgs :
          /\ Accepted(pt) =>
                (calls < MaxMoves \/ PitStones(board) <= MaxEndStones)
          /\ DoInput(pt)
          /\ calls' = IF Accepted(pt) /\ calls < MaxMoves
                      THEN calls + 1
                      ELSE calls
    /\ UNCHANGED <<winner, script, pos>>

\* main, lines 145-146: int() raises ValueError
BadInput ==
    /\ pc = "input"
    /\ op' = "ValueError"
    /\ prev' = board
    /\ UNCHANGED <<board, sown, pit, who, valid_move, extra_turn, index,
                   winner, player, pc, script, pos, calls>>

\* main, line 155
MainCollect ==
    /\ pc = "collect"
    /\ DoCollect
    /\ pc' = "winner"
    /\ UNCHANGED <<sown, pit, who, valid_move, extra_turn, index, winner,
                   player, script, pos, calls>>

\* main, lines 158-162
MainWinner ==
    /\ pc = "winner"
    /\ DoGetWinner
    /\ pc' = "done"
    /\ UNCHANGED <<sown, pit, who, valid_move, extra_turn, index,
                   player, script, pos, calls>>

NextMain ==
    \/ MainWhile
    \/ ScriptedInput
    \/ FreeInput
    \/ BadInput
    \/ MainCollect
    \/ MainWinner

SpecMain == Init /\ [][NextMain]_vars

(***************************************************************************)
(* Board layout (module docstring, lines 6-8).                             *)
(***************************************************************************)
OwnPits(p) ==
    IF p = 1 THEN 0 .. 5 ELSE 7 .. 12

OwnStore(p) ==
    IF p = 1 THEN 6 ELSE 13

(***************************************************************************)
(* Properties of the engine, checked under Spec.                           *)
(***************************************************************************)

\* C1 -- Conservation: after init_board() and after every make_move (valid
\* or not, by either player, capturing or lapping the board) and every
\* collect_remaining_stones, the 14 positions sum to exactly 48.
Conservation ==
    SumRange(board, 0, 13) = 48

\* Player 1 has played a pit of 13 or more stones, and the move captured.
ConservationWitness ==
    /\ op = "make_move"
    /\ valid_move
    /\ who = 1
    /\ prev[pit] >= 13
    /\ board # sown
    /\ SumRange(board, 0, 13) = 48

\* C2 -- Invalid moves are rejected without effect: a pit outside the acting
\* player's own range, or an own pit holding 0 stones, gives validity flag
\* false, extra-turn flag false and an unchanged board.
InvalidRejected ==
    (op = "make_move" /\ (pit \notin OwnPits(who) \/ prev[pit] = 0))
        => (~valid_move /\ ~extra_turn /\ board = prev)

\* make_move was called on an own pit holding no stones.
InvalidRejectedWitness ==
    /\ op = "make_move"
    /\ pit \in OwnPits(who)
    /\ prev[pit] = 0
    /\ ~valid_move
    /\ board = prev

\* C3 -- Skip rule: a make_move by Player 1 never changes board[13] and a
\* make_move by Player 2 never changes board[6], whatever the stone count.
SkipRule ==
    op = "make_move"
        => /\ who = 1 => board[13] = prev[13]
           /\ who = 2 => board[6] = prev[6]

\* Player 2 has played a pit of 14 or more stones: the sowing passed index 6
\* twice.
SkipRuleWitness ==
    /\ op = "make_move"
    /\ valid_move
    /\ who = 2
    /\ prev[pit] >= 14
    /\ board[6] = prev[6]

\* C4 -- Extra turn: a valid move returns extra_turn true iff the last stone
\* lands in the acting player's own store; from the initial board Player 1
\* playing pit 2 returns extra_turn true and leaves board[6] = 1.
ExtraTurnRule ==
    (op = "make_move" /\ valid_move)
        => /\ extra_turn <=> index = OwnStore(who)
           /\ (prev = init_board /\ who = 1 /\ pit = 2)
                 => (extra_turn /\ board[6] = 1)

\* Player 1 has played pit 2 on the initial board.
ExtraTurnWitness ==
    /\ op = "make_move"
    /\ valid_move
    /\ prev = init_board
    /\ who = 1
    /\ pit = 2
    /\ extra_turn

\* The condition of the capture rule, on the board as sown.
CaptureCondition ==
    /\ index \in OwnPits(who)
    /\ sown[index] = 1
    /\ sown[12 - index] > 0

CaptureExampleAsStated ==
    (/\ op = "make_move"
     /\ who = 1
     /\ pit = 0
     /\ prev[0] = 4
     /\ prev[1] = 0
     /\ prev[11] = 5)
        => /\ index = 1
           /\ board[1] = 0
           /\ board[11] = 0
           /\ board[6] = prev[6] + 6

\* C6 -- Capture example, amended: with pit 0 = 1 (not 4), pit 1 = 0 and
\* pit 11 = 5, Player 1 playing pit 0 lands the last stone on pit 1, and
\* after the move pits 1 and 11 are 0 and store 6 has increased by 6.
CaptureExample ==
    (/\ op = "make_move"
     /\ who = 1
     /\ pit = 0
     /\ prev[0] = 1
     /\ prev[1] = 0
     /\ prev[11] = 5)
        => /\ valid_move
           /\ index = 1
           /\ board[1] = 0
           /\ board[11] = 0
           /\ board[6] = prev[6] + 6

\* Player 1 has played pit 0 on such a board.
CaptureExampleWitness ==
    /\ op = "make_move"
    /\ who = 1
    /\ pit = 0
    /\ prev[0] = 1
    /\ prev[1] = 0
    /\ prev[11] = 5
    /\ board[6] = prev[6] + 6

\* C7 -- End-of-game sweep: collect_remaining_stones returns a board whose
\* pits 0..5 and 7..12 are 0, whose store 6 is the previous store 6 plus the
\* previous sum of pits 0..5, and likewise store 13 with pits 7..12.
SweepRule ==
    op = "collect_remaining_stones"
        => /\ \A i \in (0 .. 5) \cup (7 .. 12) : board[i] = 0
           /\ board[6] = prev[6] + SumRange(prev, 0, 5)
           /\ board[13] = prev[13] + SumRange(prev, 7, 12)

\* A sweep of a board with stones on both sides and in both stores.
SweepRuleWitness ==
    /\ op = "collect_remaining_stones"
    /\ SumRange(prev, 0, 5) > 0
    /\ SumRange(prev, 7, 12) > 0
    /\ prev[6] > 0
    /\ prev[13] > 0

\* C8 -- Winner determination: get_winner returns 1 exactly when
\* board[6] > board[13], 2 exactly when board[13] > board[6], a value other
\* than 1 and 2 exactly when they are equal; the board is unchanged.
WinnerRule ==
    op = "get_winner"
        => /\ winner = 1 <=> board[6] > board[13]
           /\ winner = 2 <=> board[13] > board[6]
           /\ winner \notin {1, 2} <=> board[6] = board[13]
           /\ board = prev

\* get_winner has reported a tie between two non-empty stores.
WinnerRuleWitness ==
    /\ op = "get_winner"
    /\ board[6] = board[13]
    /\ board[6] > 0
    /\ winner \notin {1, 2}

\* C9 -- Idempotent sweep: applying collect_remaining_stones to the result of
\* collect_remaining_stones leaves all 14 positions unchanged.
IdempotentSweep ==
    op = "collect_remaining_stones"
        => collect_remaining_stones(board) = board

\* The first sweep moved stones of both players.
IdempotentSweepWitness ==
    /\ op = "collect_remaining_stones"
    /\ board[6] > prev[6]
    /\ board[13] > prev[13]
    /\ collect_remaining_stones(board) = board

(***************************************************************************)
(* Properties of the driver, checked under SpecMain.                       *)
(***************************************************************************)

\* C10 -- Turn order: the game starts with Player 1 to move; an input step
\* that makes a valid move without extra turn hands the move to the other
\* player, one with extra turn leaves it with the same player, and an
\* invalid move or a pit the driver rejects leaves player and board as they
\* were; nothing else changes the player to move.
TurnOrderStep ==
    /\ pc = "input" =>
          /\ op' = "make_move" =>
                /\ who' = player
                /\ valid_move' = make_move(board, pit', player).valid
                /\ extra_turn' = make_move(board, pit', player).extra
          /\ (op' = "make_move" /\ valid_move' /\ ~extra_turn')
                => (player' # player /\ player' \in Players /\ pc' = "while")
          /\ (op' = "make_move" /\ valid_move' /\ extra_turn')
                => (player' = player /\ pc' = "while")
          /\ (op' # "make_move" \/ ~valid_move')
                => (player' = player /\ board' = board /\ pc' = "input")
    /\ pc # "input" => player' = player

TurnOrder ==
    player = 1 /\ [][TurnOrderStep]_vars

\* Player 2 has just made a valid move that earned an extra turn.
TurnOrderWitness ==
    /\ pc = "while"
    /\ op = "make_move"
    /\ valid_move
    /\ extra_turn
    /\ who = 2
    /\ player = 2

\* C11 -- Game-over gating: is_game_over holds iff pits 0..5 are all empty
\* or pits 7..12 are all empty; the driver is never waiting for a move (and
\* so never applies make_move) on a board on which it holds, also after an
\* extra turn; from such a board the only steps are the test of the while
\* condition, then one collect_remaining_stones, then one get_winner, and
\* nothing after that.
GameOverGatingStep ==
    /\ is_game_over(board) <=>
          \/ \A i \in 0 .. 5 : board[i] = 0
          \/ \A i \in 7 .. 12 : board[i] = 0
    /\ pc = "input" => ~is_game_over(board)
    /\ is_game_over(board) =>
          \/ /\ pc = "while"
             /\ pc' = "collect"
             /\ board' = board
          \/ /\ pc = "collect"
             /\ pc' = "winner"
             /\ op' = "collect_remaining_stones"
             /\ board' = collect_remaining_stones(board)
          \/ /\ pc = "winner"
             /\ pc' = "done"
             /\ op' = "get_winner"
             /\ winner' = get_winner(board)
             /\ board' = board

GameOverGating ==
    [][GameOverGatingStep]_vars

\* A game that ended on a move earning an extra turn has been swept and
\* scored.
GameOverGatingWitness ==
    /\ pc = "done"
    /\ op = "get_winner"
    /\ valid_move
    /\ extra_turn

(***************************************************************************)
(* Further properties of the engine, checked under Spec.                   *)
(***************************************************************************)

\* C12 -- Non-negativity: in every state reached from init_board() by
\* make_move calls and collect_remaining_stones, each of the 14 positions
\* is >= 0.
NonNegative ==
    \A i \in 0 .. 13 : board[i] >= 0

\* A capture has just emptied two pits.
NonNegativeWitness ==
    /\ op = "make_move"
    /\ valid_move
    /\ board # sown
    /\ board[index] = 0
    /\ board[12 - index] = 0
    /\ \A i \in 0 .. 13 : board[i] >= 0

\* The 13 positions a player sows into, in increasing cyclic order: rank r
\* of Player 1's ring is index r; Player 2's ring runs 7..13, 0..5.
RingAt(p, r) ==
    IF p = 1 THEN r
    ELSE IF r < 7 THEN r + 7 ELSE r - 7

RankOf(p, x) ==
    IF p = 1 THEN x
    ELSE IF x >= 7 THEN x - 7 ELSE x + 7

\* the k-th position after pit pt on player p's ring
After(p, pt, k) ==
    RingAt(p, (RankOf(p, pt) + k) % 13)

\* how many of the s stones sown from pit pt are dropped on position x
Visits(p, pt, s, x) ==
    Cardinality({k \in 1 .. s : After(p, pt, k) = x})

\* C13 -- Sowing: a valid move from a pit of s stones deposits exactly s
\* stones, one per visited position, in increasing cyclic order from just
\* after the pit and never on the opponent's store; the landing index is the
\* s-th position after the pit on the 13-position ring without that store,
\* and before any capture each position has gained its number of visits
\* while the chosen pit holds only what was sown back into it.
SowingRule ==
    (op = "make_move" /\ valid_move)
        => /\ index = After(who, pit, prev[pit])
           /\ \A x \in 0 .. 13 :
                 sown[x] = (IF x = pit THEN 0 ELSE prev[x])
                           + Visits(who, pit, prev[pit], x)
           /\ sown[OwnStore(3 - who)] = prev[OwnStore(3 - who)]
           /\ SumRange(sown, 0, 13) = SumRange(prev, 0, 13)

\* Player 2 has sown 13 stones: one on every position of the ring, the last
\* one back in the chosen pit.
SowingRuleWitness ==
    /\ op = "make_move"
    /\ valid_move
    /\ who = 2
    /\ prev[pit] = 13
    /\ index = pit
    /\ sown[pit] = 1
    /\ sown[13] = prev[13] + 1

\* C14 as stated -- whenever make_move captures, the landing pit held 0
\* stones before the move began; a move whose last stone lands in an own pit
\* that held stones at the start (the chosen pit played with exactly 13
\* stones included) never captures.
CaptureOnlyOnEmptyAsStated ==
    (op = "make_move" /\ valid_move)
        => /\ board # sown => prev[index] = 0
           /\ (index \in OwnPits(who) /\ prev[index] > 0) => board = sown

\* C14 -- Capture only on an emptied pit, amended: whenever make_move
\* captures, the landing pit held 0 stones before the move began or is the
\* chosen pit itself, played with exactly 13 stones (it was emptied at line
\* 71, and that move does capture); a move whose last stone lands in any
\* other own pit that held stones at the start never captures.
CaptureOnlyOnEmpty ==
    (op = "make_move" /\ valid_move)
        => /\ board # sown
                 => (prev[index] = 0 \/ (index = pit /\ prev[pit] = 13))
           /\ (index = pit /\ prev[pit] = 13) => board # sown
           /\ (index \in OwnPits(who) /\ index # pit /\ prev[index] > 0)
                 => board = sown

\* Player 1 has played a pit of exactly 13 stones; the last stone came back
\* to it and captured.
CaptureOnlyOnEmptyWitness ==
    /\ op = "make_move"
    /\ valid_move
    /\ who = 1
    /\ prev[pit] = 13
    /\ index = pit
    /\ board # sown
    /\ board[pit] = 0

\* C15 -- Opposite-pit mapping: the opposite of a pit of one player is a pit
\* of the other player (0..5 <-> 7..12), never a store, and the mapping is
\* its own inverse; a capture at landing index i changes nothing but pit i,
\* pit 12 - i of the opponent and the acting player's own store, taking
\* stones from the two pits and adding to the store.
OppositeMapping ==
    /\ \A i \in 0 .. 5 :
          Opposite(i) \in 7 .. 12 /\ Opposite(Opposite(i)) = i
    /\ \A i \in 7 .. 12 :
          Opposite(i) \in 0 .. 5 /\ Opposite(Opposite(i)) = i
    /\ (op = "make_move" /\ valid_move /\ board # sown)
          => /\ index \in OwnPits(who)
             /\ (12 - index) \in OwnPits(3 - who)
             /\ \A x \in (0 .. 13) \ {index, 12 - index, OwnStore(who)} :
                   board[x] = sown[x]
             /\ board[index] < sown[index]
             /\ board[12 - index] < sown[12 - index]
             /\ board[OwnStore(who)] > sown[OwnStore(who)]
             /\ board[OwnStore(3 - who)] = sown[OwnStore(3 - who)]

\* Player 2 has captured two or more stones from a pit of Player 1.
OppositeMappingWitness ==
    /\ op = "make_move"
    /\ valid_move
    /\ who = 2
    /\ board # sown
    /\ (12 - index) \in 0 .. 5
    /\ sown[12 - index] >= 2
    /\ board[12 - index] = 0

(***************************************************************************)
(* Further properties of the driver, checked under SpecMain.               *)
(***************************************************************************)

\* C16 -- No stuck turn: in every state of the driver where is_game_over is
\* false, the player to move has a pit that the driver passes on and for
\* which make_move returns validity flag true.
NoStuckTurn ==
    ~is_game_over(board)
        => \E pt \in OwnPits(player) :
              /\ ~DriverRejects(player, pt)
              /\ make_move(board, pt, player).valid

\* The driver is waiting for a player who has exactly one pit to choose.
NoStuckTurnWitness ==
    /\ pc = "input"
    /\ ~is_game_over(board)
    /\ Cardinality({pt \in OwnPits(player) : board[pt] > 0}) = 1
    /\ \E pt \in OwnPits(player) : make_move(board, pt, player).valid

(***************************************************************************)
(* SpecPlayFair: the driver with players who enter pits of their own side  *)
(* (empty ones included) and who, asked for a pit, eventually enter one    *)
(* that is accepted; the program itself keeps running.                     *)
(***************************************************************************)
OwnPitInput ==
    /\ pc = "input"
    /\ \E pt \in OwnPits(player) :
          /\ Accepted(pt) =>
                (calls < MaxMoves \/ PitStones(board) <= MaxEndStones)
          /\ DoInput(pt)
          /\ calls' = IF Accepted(pt) /\ calls < MaxMoves
                      THEN calls + 1
                      ELSE calls
    /\ UNCHANGED <<winner, script, pos>>

\* an input step that ends the inner loop (lines 132-146)
AcceptedInput ==
    (ScriptedInput \/ OwnPitInput) /\ pc' = "while"

NextPlay ==
    \/ MainWhile
    \/ ScriptedInput
    \/ OwnPitInput
    \/ MainCollect
    \/ MainWinner

SpecPlayFair ==
    /\ Init
    /\ [][NextPlay]_vars
    /\ WF_vars(MainWhile)
    /\ WF_vars(AcceptedInput)

\* the stones in the two stores
Stores(b) ==
    b[6] + b[13]

\* how far the stones in the pits have advanced along their own side
RECURSIVE Advanced(_, _, _)
Advanced(b, lo, hi) ==
    IF lo > hi THEN 0
    ELSE (hi - lo) * b[hi] + Advanced(b, lo, hi - 1)

Advance(b) ==
    Advanced(b, 0, 5) + Advanced(b, 7, 12)

\* Every accepted move adds to a store or, failing that, carries stones
\* forward on the mover's side; both quantities are bounded.
TerminationStep ==
    /\ Stores(board) <= 48
    /\ Advance(board) <= 5 * 48
    /\ (pc = "input" /\ pc' = "while")
          => \/ Stores(board') > Stores(board)
             \/ /\ Stores(board') = Stores(board)
                /\ Advance(board') > Advance(board)

\* C17 -- Termination: there is no infinite sequence of valid moves (each
\* one increases a bounded measure), and a game whose players keep making
\* valid moves reaches a board on which is_game_over is true; the second
\* half is checked for every game once MaxEndStones or fewer stones are
\* left in the pits, whatever moves are chosen from there.
Termination ==
    /\ [][TerminationStep]_vars
    /\ (PitStones(board) <= MaxEndStones) ~> is_game_over(board)

\* A game that was played on freely with few stones left has ended.
TerminationWitness ==
    /\ pc = "collect"
    /\ is_game_over(board)
    /\ calls = MaxMoves
    /\ op = "make_move"
    /\ PitStones(prev) <= MaxEndStones
    /\ PitStones(prev) > PitStones(board)

(***************************************************************************)
(* Stores, checked under Spec.                                             *)
(***************************************************************************)

\* C18 -- Stores only grow: across every make_move (valid or invalid, by
\* either player) and every collect_remaining_stones, board[6] and board[13]
\* never decrease; a store is never sown out of (choosing it is an invalid
\* move) nor captured from.
StoresOnlyGrow ==
    /\ board[6] >= prev[6]
    /\ board[13] >= prev[13]
    /\ (op = "make_move" /\ pit \in {6, 13}) => (~valid_move /\ board = prev)
    /\ (op = "make_move" /\ valid_move)
          => (board[6] >= sown[6] /\ board[13] >= sown[13])

\* Player 2 has tried to play from a store that holds stones.
StoresOnlyGrowWitness ==
    /\ op = "make_move"
    /\ who = 2
    /\ pit = 13
    /\ prev[13] > 0
    /\ ~valid_move
    /\ board[13] = prev[13]

(***************************************************************************)
(* The final score, checked under SpecMain.                                *)
(***************************************************************************)
FinalScoreState ==
    /\ pc \in {"winner", "done"}
          => /\ board[6] + board[13] = 48
             /\ \A i \in (0 .. 5) \cup (7 .. 12) : board[i] = 0
    /\ pc = "done"
          => /\ winner \notin {1, 2} <=> (board[6] = 24 /\ board[13] = 24)
             /\ board[6] > 24 => winner = 1
             /\ board[13] > 24 => winner = 2

FinalScoreStep ==
    /\ board[6] > 24 => board'[6] > 24
    /\ board[13] > 24 => board'[13] > 24

\* C19 -- Final score consistency: in every complete game of the driver,
\* after collect_remaining_stones the two stores sum to 48 and all pits are
\* 0, so get_winner reports a tie only at 24/24; a store that holds more
\* than 24 stones at any point still does at every later point, and
\* get_winner after the final sweep then returns its owner.
FinalScore ==
    []FinalScoreState /\ [][FinalScoreStep]_vars

\* A game is complete in which store 6 held more than 24 stones while the
\* last move was being sown, with stones still in the pits; Player 1 won.
FinalScoreWitness ==
    /\ pc = "done"
    /\ winner = 1
    /\ sown[6] > 24
    /\ PitStones(sown) > 0
    /\ board[6] + board[13] = 48

====
